---------------------------- MODULE Spec2Model ----------------------------
(***************************************************************************)
(* The two contracts of examples/demo-contracts as state machines: the     *)
(* ERC-20 token ledger of erc20.rs (specification Spec) and the boolean    *)
(* toggle of flipper.rs (specification FlipperSpec).  Each specification   *)
(* runs one contract and leaves the variables of the other fixed.          *)
(*                                                                         *)
(* The token ledger.  The state is the contract storage (total_supply, balances,    *)
(* allowances, name, symbol, decimals), the host's event log, and the      *)
(* selector of the last message the host dispatched together with the      *)
(* value it returned.  Init is the storage right after the constructor;    *)
(* every message is one action, its caller and arguments the action's      *)
(* parameters.  The host runs one message at a time, to completion.        *)
(***************************************************************************)
EXTENDS Integers, Sequences, FiniteSets, TLC

(***************************************************************************)
(* Bounds of the model.                                                    *)
(***************************************************************************)
\* Balance is u128 in the contract; the model keeps a fixed width but narrows
\* it: amounts range over 0..MaxBalance and a sum past MaxBalance overflows.
MaxBalance == 3

\* No further message is dispatched once the event log holds MaxEvents
\* notifications (the minting notification included).
MaxEvents == 3

\* The Flipper is sent at most MaxFlips flip and MaxGets get messages.
MaxFlips == 5

MaxGets == 5

Modulus == MaxBalance + 1

Balance == 0 .. MaxBalance

AccountId == {"alice", "bob", "charlie"}

\* The caller of the constructor.  The contract treats every account alike,
\* so the deployment by alice (the default caller of the tests) stands for a
\* deployment by any account; the messages are then sent by every account.
Deployers == {"alice"}

\* The descriptive fields passed to the constructor, <<name, symbol,
\* decimals>>, as in the tests.  No message reads or writes them.
TokenMetas == {<<"Token Name", "TN", 18>>}

(***************************************************************************)
(* Error and result values of a message.                                   *)
(***************************************************************************)
InsufficientBalance == "InsufficientBalance"

InsufficientAllowance == "InsufficientAllowance"

Ok == "Ok"

\* An arithmetic overflow in a build with overflow checks: the message
\* panics and the host reverts it.
Trap == "Trap"

None == "None"

VARIABLES
    total_supply,   \* Lazy<Balance>
    balances,       \* HashMap<AccountId, Balance>: a function on the stored keys
    allowances,     \* HashMap<(AccountId, AccountId), Balance>
    name,           \* Lazy<String>
    symbol,         \* Lazy<String>
    decimals,       \* Lazy<u8>
    events,         \* the host's event log, oldest first
    message,        \* the selector of the last message dispatched
    result,         \* what that message returned
    deployed,       \* the constructor call that created the contract
    approved,       \* history: value of the last approve, per approved (owner, spender)
    spent,          \* history: sum spent by successful transfer_from since that approve
    granted,        \* history: sum of the values of all approve calls, per (owner, spender)
    moved,          \* history: sum moved by all successful transfer_from, per (owner, spender)
    flipper,        \* the storage of the Flipper contract: [value: bool]
    flipper_call,   \* the last Flipper message dispatched, with what get returned
    flipper_history \* history: the Flipper's constructor argument, flips and gets so far

erc20_vars == <<total_supply, balances, allowances, name, symbol, decimals,
                events, message, result, deployed, approved, spent, granted,
                moved>>

flipper_vars == <<flipper, flipper_call, flipper_history>>

vars == <<erc20_vars, flipper_vars>>

(***************************************************************************)
(* HashMap and events.                                                     *)
(***************************************************************************)
\* HashMap::insert: adds the key or overwrites its value.
insert(map, key, value) ==
    [k \in (DOMAIN map) \cup {key} |-> IF k = key THEN value ELSE map[k]]

EmptyMap == [k \in {} |-> 0]

Transfer(from, to, value) ==
    [event |-> "Transfer", from |-> from, to |-> to, value |-> value]

Approval(owner, spender, value) ==
    [event |-> "Approval", owner |-> owner, spender |-> spender, value |-> value]

(***************************************************************************)
(* Read accessors.                                                         *)
(***************************************************************************)
balance_of_in(bals, owner) ==
    IF owner \in DOMAIN bals THEN bals[owner] ELSE 0

allowance_in(alls, owner, spender) ==
    IF <<owner, spender>> \in DOMAIN alls THEN alls[<<owner, spender>>] ELSE 0

balance_of(owner) == balance_of_in(balances, owner)

allowance(owner, spender) == allowance_in(allowances, owner, spender)

(***************************************************************************)
(* Faulty variants of transfer_from_to.                                    *)
(***************************************************************************)
\* The recipient's balance is read before the debit is written, so a
\* transfer to oneself credits the undebited balance.
transfer_from_to_StaleCredit(bals, from, to, value) ==
    LET from_balance == balance_of_in(bals, from)
        to_balance == balance_of_in(bals, to)
    IN
    IF from_balance < value
    THEN {[res |-> InsufficientBalance, balances |-> bals, emitted |-> <<>>]}
    ELSE LET debited == insert(bals, from, from_balance - value)
             credited == [res |-> Ok,
                          balances |-> insert(debited, to,
                                              (to_balance + value) % Modulus),
                          emitted |-> <<Transfer(from, to, value)>>]
         IN  IF to_balance + value > MaxBalance
             THEN {credited, [res |-> Trap, balances |-> bals, emitted |-> <<>>]}
             ELSE {credited}

\* The debit is written (saturating at 0) before the balance is checked, so
\* a call that fails has already emptied the sender's balance.
transfer_from_to_DebitFirst(bals, from, to, value) ==
    LET from_balance == balance_of_in(bals, from) IN
    IF from_balance < value
    THEN {[res |-> InsufficientBalance, balances |-> insert(bals, from, 0),
           emitted |-> <<>>]}
    ELSE LET debited == insert(bals, from, from_balance - value)
             to_balance == balance_of_in(debited, to)
             credited == [res |-> Ok,
                          balances |-> insert(debited, to,
                                              (to_balance + value) % Modulus),
                          emitted |-> <<Transfer(from, to, value)>>]
         IN  IF to_balance + value > MaxBalance
             THEN {credited, [res |-> Trap, balances |-> bals, emitted |-> <<>>]}
             ELSE {credited}

\* The balance of the recipient is checked instead of the sender's, so the
\* debit can take more than the sender has.
transfer_from_to_WrongCheck(bals, from, to, value) ==
    LET from_balance == balance_of_in(bals, from) IN
    IF balance_of_in(bals, to) < value
    THEN {[res |-> InsufficientBalance, balances |-> bals, emitted |-> <<>>]}
    ELSE LET debited == insert(bals, from, from_balance - value)
             to_balance == balance_of_in(debited, to)
             credited == [res |-> Ok,
                          balances |-> insert(debited, to,
                                              (to_balance + value) % Modulus),
                          emitted |-> <<Transfer(from, to, value)>>]
         IN  IF to_balance + value > MaxBalance
             THEN {credited, [res |-> Trap, balances |-> bals, emitted |-> <<>>]}
             ELSE {credited}

\* A transfer of the whole balance is refused: the check is <= where the
\* contract has <.
transfer_from_to_StrictCheck(bals, from, to, value) ==
    LET from_balance == balance_of_in(bals, from) IN
    IF from_balance <= value
    THEN {[res |-> InsufficientBalance, balances |-> bals, emitted |-> <<>>]}
    ELSE LET debited == insert(bals, from, from_balance - value)
             to_balance == balance_of_in(debited, to)
             credited == [res |-> Ok,
                          balances |-> insert(debited, to,
                                              (to_balance + value) % Modulus),
                          emitted |-> <<Transfer(from, to, value)>>]
         IN  IF to_balance + value > MaxBalance
             THEN {credited, [res |-> Trap, balances |-> bals, emitted |-> <<>>]}
             ELSE {credited}

\* A transfer of value 0 emits no notification.
transfer_from_to_QuietZero(bals, from, to, value) ==
    LET from_balance == balance_of_in(bals, from) IN
    IF from_balance < value
    THEN {[res |-> InsufficientBalance, balances |-> bals, emitted |-> <<>>]}
    ELSE LET debited == insert(bals, from, from_balance - value)
             to_balance == balance_of_in(debited, to)
             credited == [res |-> Ok,
                          balances |-> insert(debited, to,
                                              (to_balance + value) % Modulus),
                          emitted |-> IF value = 0 THEN <<>>
                                      ELSE <<Transfer(from, to, value)>>]
         IN  IF to_balance + value > MaxBalance
             THEN {credited, [res |-> Trap, balances |-> bals, emitted |-> <<>>]}
             ELSE {credited}

(***************************************************************************)
(* transfer_from_to: the outcomes of moving value from `from` to `to` on   *)
(* the balances bals.  The credit to_balance + value is a plain u128       *)
(* addition: past the maximum it panics in a build with overflow checks    *)
(* (the host reverts the message) and wraps in a build without, so both    *)
(* outcomes are possible there.  A failing or reverted call leaves the map *)
(* as it was and emits nothing.                                            *)
(***************************************************************************)
transfer_from_to(bals, from, to, value) ==
    LET from_balance == balance_of_in(bals, from) IN
    IF from_balance < value
    THEN {[res |-> InsufficientBalance, balances |-> bals, emitted |-> <<>>]}
    ELSE LET debited == insert(bals, from, from_balance - value)
             to_balance == balance_of_in(debited, to)
             credited == [res |-> Ok,
                          balances |-> insert(debited, to,
                                              (to_balance + value) % Modulus),
                          emitted |-> <<Transfer(from, to, value)>>]
         IN  IF to_balance + value > MaxBalance
             THEN {credited, [res |-> Trap, balances |-> bals, emitted |-> <<>>]}
             ELSE {credited}

(***************************************************************************)
(* History of approvals, kept from the dispatched messages and their       *)
(* results only (never from the storage): approve(owner, spender, value)   *)
(* restarts the pair's record, a successful transfer_from adds to what the *)
(* pair has spent.  granted and moved are the same sums, never restarted.  *)
(***************************************************************************)
ObserveApprove(owner, spender, value) ==
    /\ approved' = insert(approved, <<owner, spender>>, value)
    /\ spent' = [spent EXCEPT ![<<owner, spender>>] = 0]
    /\ granted' = [granted EXCEPT ![<<owner, spender>>] = @ + value]
    /\ moved' = moved

ObserveTransferFrom(caller, from, value, res) ==
    /\ approved' = approved
    /\ spent' = IF res = Ok
                THEN [spent EXCEPT ![<<from, caller>>] = @ + value]
                ELSE spent
    /\ granted' = granted
    /\ moved' = IF res = Ok
                THEN [moved EXCEPT ![<<from, caller>>] = @ + value]
                ELSE moved

\* No Flipper is deployed: its variables hold these values and never change.
FlipperAbsent ==
    /\ flipper = [value |-> FALSE]
    /\ flipper_call = [op |-> "none"]
    /\ flipper_history = [ctor |-> "none", init_value |-> FALSE,
                          flips |-> 0, gets |-> 0]

\* Faulty constructor: the caller is credited but the supply cell is left at
\* its default, 0.
Init_SupplyUnset ==
    \E caller \in Deployers, initial_supply \in Balance, meta \in TokenMetas :
        /\ total_supply = 0
        /\ balances = insert(EmptyMap, caller, initial_supply)
        /\ allowances = EmptyMap
        /\ name = meta[1]
        /\ symbol = meta[2]
        /\ decimals = meta[3]
        /\ events = <<Transfer(None, caller, initial_supply)>>
        /\ message = "new"
        /\ result = Ok
        /\ deployed = [caller |-> caller, initial_supply |-> initial_supply,
                       name |-> meta[1], symbol |-> meta[2], decimals |-> meta[3]]
        /\ approved = EmptyMap
        /\ spent = [p \in AccountId \X AccountId |-> 0]
        /\ granted = [p \in AccountId \X AccountId |-> 0]
        /\ moved = [p \in AccountId \X AccountId |-> 0]
        /\ FlipperAbsent

(***************************************************************************)
(* Init: the state the constructor new(initial_supply, name, symbol,       *)
(* decimals) leaves, for every initial supply.                             *)
(***************************************************************************)
Init ==
    \E caller \in Deployers, initial_supply \in Balance, meta \in TokenMetas :
        /\ total_supply = initial_supply
        /\ balances = insert(EmptyMap, caller, initial_supply)
        /\ allowances = EmptyMap
        /\ name = meta[1]
        /\ symbol = meta[2]
        /\ decimals = meta[3]
        /\ events = <<Transfer(None, caller, initial_supply)>>
        /\ message = "new"
        /\ result = Ok
        /\ deployed = [caller |-> caller, initial_supply |-> initial_supply,
                       name |-> meta[1], symbol |-> meta[2], decimals |-> meta[3]]
        /\ approved = EmptyMap
        /\ spent = [p \in AccountId \X AccountId |-> 0]
        /\ granted = [p \in AccountId \X AccountId |-> 0]
        /\ moved = [p \in AccountId \X AccountId |-> 0]
        /\ FlipperAbsent

(***************************************************************************)
(* The messages.                                                           *)
(***************************************************************************)
\* Faulty transfer: sender and recipient are passed in the wrong order.
transfer_ArgsSwapped(caller, to, value) ==
    /\ message' = "transfer"
    /\ \E out \in transfer_from_to(balances, to, caller, value) :
          /\ result' = out.res
          /\ balances' = out.balances
          /\ events' = events \o out.emitted
    /\ UNCHANGED <<total_supply, allowances, name, symbol, decimals, deployed,
                   approved, spent, granted, moved>>

\* Faulty transfer: the amount moved is also taken off the supply, as if it
\* were burnt.
transfer_Burning(caller, to, value) ==
    /\ message' = "transfer"
    /\ \E out \in transfer_from_to(balances, caller, to, value) :
          /\ result' = out.res
          /\ balances' = out.balances
          /\ events' = events \o out.emitted
          /\ total_supply' = IF out.res = Ok THEN total_supply - value
                             ELSE total_supply
    /\ UNCHANGED <<allowances, name, symbol, decimals, deployed,
                   approved, spent, granted, moved>>

transfer(caller, to, value) ==
    /\ message' = "transfer"
    /\ \E out \in transfer_from_to(balances, caller, to, value) :
          /\ result' = out.res
          /\ balances' = out.balances
          /\ events' = events \o out.emitted
    /\ UNCHANGED <<total_supply, allowances, name, symbol, decimals, deployed,
                   approved, spent, granted, moved>>

\* Faulty approve: the value is added to the allowance already stored.
approve_Adding(caller, spender, value) ==
    /\ message' = "approve"
    /\ allowances' = insert(allowances, <<caller, spender>>,
                            allowance(caller, spender) + value)
    /\ events' = Append(events, Approval(caller, spender, value))
    /\ result' = Ok
    /\ ObserveApprove(caller, spender, value)
    /\ UNCHANGED <<total_supply, balances, name, symbol, decimals, deployed>>

approve(caller, spender, value) ==
    /\ message' = "approve"
    /\ allowances' = insert(allowances, <<caller, spender>>, value)
    /\ events' = Append(events, Approval(caller, spender, value))
    /\ result' = Ok
    /\ ObserveApprove(caller, spender, value)
    /\ UNCHANGED <<total_supply, balances, name, symbol, decimals, deployed>>

\* Faulty transfer_from: the balance of `from` is checked before the
\* allowance.
transfer_from_BalanceFirst(caller, from, to, value) ==
    LET allowed == allowance(from, caller) IN
    /\ message' = "transfer_from"
    /\ IF balance_of(from) < value
       THEN /\ result' = InsufficientBalance
            /\ UNCHANGED <<balances, allowances, events>>
       ELSE IF allowed < value
       THEN /\ result' = InsufficientAllowance
            /\ UNCHANGED <<balances, allowances, events>>
       ELSE \E out \in transfer_from_to(balances, from, to, value) :
               /\ result' = out.res
               /\ balances' = out.balances
               /\ events' = events \o out.emitted
               /\ allowances' = IF out.res = Ok
                                THEN insert(allowances, <<from, caller>>,
                                            allowed - value)
                                ELSE allowances
    /\ ObserveTransferFrom(caller, from, value, result')
    /\ UNCHANGED <<total_supply, name, symbol, decimals, deployed>>

\* Faulty transfer_from: the allowance is lowered before the balances are
\* moved and stays lowered when the move fails.
transfer_from_EagerDecrement(caller, from, to, value) ==
    LET allowed == allowance(from, caller) IN
    /\ message' = "transfer_from"
    /\ IF allowed < value
       THEN /\ result' = InsufficientAllowance
            /\ UNCHANGED <<balances, allowances, events>>
       ELSE \E out \in transfer_from_to(balances, from, to, value) :
               /\ result' = out.res
               /\ balances' = out.balances
               /\ events' = events \o out.emitted
               /\ allowances' = insert(allowances, <<from, caller>>,
                                       allowed - value)
    /\ ObserveTransferFrom(caller, from, value, result')
    /\ UNCHANGED <<total_supply, name, symbol, decimals, deployed>>

\* Faulty transfer_from: the lowered allowance is stored under (caller, from)
\* instead of (from, caller).
transfer_from_WrongKey(caller, from, to, value) ==
    LET allowed == allowance(from, caller) IN
    /\ message' = "transfer_from"
    /\ IF allowed < value
       THEN /\ result' = InsufficientAllowance
            /\ UNCHANGED <<balances, allowances, events>>
       ELSE \E out \in transfer_from_to(balances, from, to, value) :
               /\ result' = out.res
               /\ balances' = out.balances
               /\ events' = events \o out.emitted
               /\ allowances' = IF out.res = Ok
                                THEN insert(allowances, <<caller, from>>,
                                            allowed - value)
                                ELSE allowances
    /\ ObserveTransferFrom(caller, from, value, result')
    /\ UNCHANGED <<total_supply, name, symbol, decimals, deployed>>

\* Faulty transfer_from: the allowance is never lowered.
transfer_from_NoDecrement(caller, from, to, value) ==
    LET allowed == allowance(from, caller) IN
    /\ message' = "transfer_from"
    /\ IF allowed < value
       THEN /\ result' = InsufficientAllowance
            /\ UNCHANGED <<balances, allowances, events>>
       ELSE \E out \in transfer_from_to(balances, from, to, value) :
               /\ result' = out.res
               /\ balances' = out.balances
               /\ events' = events \o out.emitted
               /\ allowances' = allowances
    /\ ObserveTransferFrom(caller, from, value, result')
    /\ UNCHANGED <<total_supply, name, symbol, decimals, deployed>>

\* Faulty transfer_from: the allowance is never checked.
transfer_from_NoAllowanceCheck(caller, from, to, value) ==
    LET allowed == allowance(from, caller) IN
    /\ message' = "transfer_from"
    /\ \E out \in transfer_from_to(balances, from, to, value) :
          /\ result' = out.res
          /\ balances' = out.balances
          /\ events' = events \o out.emitted
          /\ allowances' = IF out.res = Ok /\ allowed >= value
                           THEN insert(allowances, <<from, caller>>,
                                       allowed - value)
                           ELSE allowances
    /\ ObserveTransferFrom(caller, from, value, result')
    /\ UNCHANGED <<total_supply, name, symbol, decimals, deployed>>

\* Faulty transfer_from: the allowance read is the one `caller` gave to
\* `from`, not the one `from` gave to `caller`.
transfer_from_ReversedAllowance(caller, from, to, value) ==
    LET allowed == allowance(caller, from) IN
    /\ message' = "transfer_from"
    /\ IF allowed < value
       THEN /\ result' = InsufficientAllowance
            /\ UNCHANGED <<balances, allowances, events>>
       ELSE \E out \in transfer_from_to(balances, from, to, value) :
               /\ result' = out.res
               /\ balances' = out.balances
               /\ events' = events \o out.emitted
               /\ allowances' = IF out.res = Ok
                                THEN insert(allowances, <<from, caller>>,
                                            allowed - value)
                                ELSE allowances
    /\ ObserveTransferFrom(caller, from, value, result')
    /\ UNCHANGED <<total_supply, name, symbol, decimals, deployed>>

transfer_from(caller, from, to, value) ==
    LET allowed == allowance(from, caller) IN
    /\ message' = "transfer_from"
    /\ IF allowed < value
       THEN /\ result' = InsufficientAllowance
            /\ UNCHANGED <<balances, allowances, events>>
       ELSE \E out \in transfer_from_to(balances, from, to, value) :
               /\ result' = out.res
               /\ balances' = out.balances
               /\ events' = events \o out.emitted
               /\ allowances' = IF out.res = Ok
                                THEN insert(allowances, <<from, caller>>,
                                            allowed - value)
                                ELSE allowances
    /\ ObserveTransferFrom(caller, from, value, result')
    /\ UNCHANGED <<total_supply, name, symbol, decimals, deployed>>

\* The host dispatches a message while the event log has room.
Dispatchable == Len(events) < MaxEvents

Next ==
    \/ /\ Dispatchable
       /\ \E caller \in AccountId, to \in AccountId, value \in Balance :
             transfer(caller, to, value)
       /\ UNCHANGED flipper_vars
    \/ /\ Dispatchable
       /\ \E caller \in AccountId, spender \in AccountId, value \in Balance :
             approve(caller, spender, value)
       /\ UNCHANGED flipper_vars
    \/ /\ Dispatchable
       /\ \E caller \in AccountId, from \in AccountId, to \in AccountId,
             value \in Balance :
             transfer_from(caller, from, to, value)
       /\ UNCHANGED flipper_vars

Spec == Init /\ [][Next]_vars

(***************************************************************************)
(* The Flipper contract of flipper.rs.  Its storage is one boolean; the    *)
(* history records the constructor used, the value it was given (false     *)
(* for default(), which takes none) and how many flip and get messages     *)
(* have been dispatched.                                                   *)
(***************************************************************************)
\* No token is deployed: its variables hold these values and never change.
Erc20Absent ==
    /\ total_supply = 0
    /\ balances = EmptyMap
    /\ allowances = EmptyMap
    /\ name = ""
    /\ symbol = ""
    /\ decimals = 0
    /\ events = <<>>
    /\ message = "none"
    /\ result = Ok
    /\ deployed = [caller |-> None]
    /\ approved = EmptyMap
    /\ spent = [p \in AccountId \X AccountId |-> 0]
    /\ granted = [p \in AccountId \X AccountId |-> 0]
    /\ moved = [p \in AccountId \X AccountId |-> 0]

Flipper_new(init_value) == [value |-> init_value]

Flipper_default == Flipper_new(FALSE)

FlipperInit ==
    /\ Erc20Absent
    /\ \/ \E init_value \in BOOLEAN :
             /\ flipper = Flipper_new(init_value)
             /\ flipper_call = [op |-> "new"]
             /\ flipper_history = [ctor |-> "new", init_value |-> init_value,
                                   flips |-> 0, gets |-> 0]
       \/ /\ flipper = Flipper_default
          /\ flipper_call = [op |-> "default"]
          /\ flipper_history = [ctor |-> "default", init_value |-> FALSE,
                                flips |-> 0, gets |-> 0]

\* Faulty flip: sets the value instead of negating it.
flip_SetsTrue ==
    /\ flipper' = [flipper EXCEPT !.value = TRUE]
    /\ flipper_call' = [op |-> "flip"]
    /\ flipper_history' = [flipper_history EXCEPT !.flips = @ + 1]

flip ==
    /\ flipper' = [flipper EXCEPT !.value = ~flipper.value]
    /\ flipper_call' = [op |-> "flip"]
    /\ flipper_history' = [flipper_history EXCEPT !.flips = @ + 1]

get ==
    /\ flipper_call' = [op |-> "get", ret |-> flipper.value]
    /\ flipper_history' = [flipper_history EXCEPT !.gets = @ + 1]
    /\ UNCHANGED flipper

FlipperNext ==
    \/ /\ flipper_history.flips < MaxFlips
       /\ flip
       /\ UNCHANGED erc20_vars
    \/ /\ flipper_history.gets < MaxGets
       /\ get
       /\ UNCHANGED erc20_vars

FlipperSpec == FlipperInit /\ [][FlipperNext]_vars

(***************************************************************************)
(* Properties.                                                             *)
(***************************************************************************)
RECURSIVE SumOver(_, _)
SumOver(map, keys) ==
    IF keys = {} THEN 0
    ELSE LET k == CHOOSE x \in keys : TRUE
         IN  map[k] + SumOver(map, keys \ {k})

\* The sum of all stored balances.
SumBalances == SumOver(balances, DOMAIN balances)

LastEvent == events[Len(events)]

\* A step changes no balance, no allowance, not the supply and not the log.
NoOp ==
    /\ balances' = balances
    /\ allowances' = allowances
    /\ total_supply' = total_supply
    /\ events' = events

\* C1: in every reachable state the sum of all stored balances equals
\* total_supply.
C1_SupplyConserved == SumBalances = total_supply

C1_Witness ==
    /\ message = "transfer_from"
    /\ result = Ok
    /\ LastEvent.value > 0
    /\ LastEvent.from # LastEvent.to
    /\ Cardinality(DOMAIN balances) > 1

\* C2: a transfer of more than the caller's balance returns
\* InsufficientBalance and changes no balance, no allowance, not the supply,
\* and adds nothing to the event log.
C2_TransferInsufficientBalance ==
    [][\A caller \in AccountId, to \in AccountId, value \in Balance :
          (balance_of(caller) < value /\ transfer(caller, to, value))
              => (result' = InsufficientBalance /\ NoOp)]_vars

C2_Witness ==
    /\ message = "transfer"
    /\ result = InsufficientBalance
    /\ total_supply > 0

\* C3: a transfer of at most the caller's balance to another account returns
\* Ok, debits the caller by value, credits `to` by value (its entry exists
\* afterwards), leaves every other balance alone and appends exactly the
\* notification Transfer {from: caller, to, value}.
C3_TransferMoves ==
    [][\A caller \in AccountId, to \in AccountId, value \in Balance :
          (balance_of(caller) >= value /\ caller # to /\ transfer(caller, to, value))
              => /\ result' = Ok
                 /\ balance_of(caller)' = balance_of(caller) - value
                 /\ balance_of(to)' = balance_of(to) + value
                 /\ to \in DOMAIN balances'
                 /\ \A other \in AccountId \ {caller, to} :
                       balance_of(other)' = balance_of(other)
                 /\ events' = Append(events, Transfer(caller, to, value))]_vars

C3_Witness ==
    /\ message = "transfer"
    /\ result = Ok
    /\ LastEvent.from # LastEvent.to
    /\ LastEvent.value > 0
    /\ balance_of(LastEvent.from) > 0

\* C4: a transfer_from of more than allowance(from, caller) returns
\* InsufficientAllowance and changes no balance and no allowance, whatever
\* the balance of `from` (also when that balance is below value).
C4_TransferFromInsufficientAllowance ==
    [][\A caller \in AccountId, from \in AccountId, to \in AccountId,
          value \in Balance :
          (allowance(from, caller) < value /\ transfer_from(caller, from, to, value))
              => (result' = InsufficientAllowance /\ NoOp)]_vars

\* With no supply every balance is below the value asked for, so here both
\* the allowance and the balance were insufficient.
C4_Witness ==
    /\ message = "transfer_from"
    /\ result = InsufficientAllowance
    /\ total_supply = 0

\* C5: a transfer_from within the allowance but of more than the balance of
\* `from` returns InsufficientBalance, leaves every allowance (that of
\* (from, caller) included) and every balance as they were and emits nothing.
C5_TransferFromInsufficientBalance ==
    [][\A caller \in AccountId, from \in AccountId, to \in AccountId,
          value \in Balance :
          (/\ allowance(from, caller) >= value
           /\ balance_of(from) < value
           /\ transfer_from(caller, from, to, value))
              => (result' = InsufficientBalance /\ NoOp)]_vars

C5_Witness ==
    /\ message = "transfer_from"
    /\ result = InsufficientBalance
    /\ \E owner \in AccountId, spender \in AccountId :
          allowance(owner, spender) > balance_of(owner)

\* C6: a transfer_from within the allowance and the balance of `from` returns
\* Ok, moves value from `from` to `to` as transfer does (nothing moves when
\* from = to), lowers allowance(from, caller) by value and appends exactly
\* the notification Transfer {from, to, value}.
C6_TransferFromMoves ==
    [][\A caller \in AccountId, from \in AccountId, to \in AccountId,
          value \in Balance :
          (/\ allowance(from, caller) >= value
           /\ balance_of(from) >= value
           /\ transfer_from(caller, from, to, value))
              => /\ result' = Ok
                 /\ balance_of(from)' =
                       IF from = to THEN balance_of(from)
                       ELSE balance_of(from) - value
                 /\ balance_of(to)' =
                       IF from = to THEN balance_of(to)
                       ELSE balance_of(to) + value
                 /\ \A other \in AccountId \ {from, to} :
                       balance_of(other)' = balance_of(other)
                 /\ allowance(from, caller)' = allowance(from, caller) - value
                 /\ events' = Append(events, Transfer(from, to, value))]_vars

C6_Witness ==
    /\ message = "transfer_from"
    /\ result = Ok
    /\ LastEvent.value > 0
    /\ LastEvent.from # LastEvent.to
    /\ \E spender \in AccountId :
          /\ <<LastEvent.from, spender>> \in DOMAIN approved
          /\ spent[<<LastEvent.from, spender>>] = LastEvent.value
          /\ allowance(LastEvent.from, spender) > 0

C8_SelfTransfer ==
    [][/\ \A caller \in AccountId, value \in Balance :
             (balance_of(caller) >= value /\ transfer(caller, caller, value))
                 => (result' = Ok /\ balance_of(caller)' = balance_of(caller))
       /\ \A caller \in AccountId, from \in AccountId, value \in Balance :
             (/\ allowance(from, caller) >= value
              /\ balance_of(from) >= value
              /\ transfer_from(caller, from, from, value))
                 => (result' = Ok /\ balance_of(from)' = balance_of(from))]_vars

C8_Witness ==
    /\ message = "transfer"
    /\ result = Ok
    /\ LastEvent.from = LastEvent.to
    /\ LastEvent.value > 0
    /\ balance_of(LastEvent.from) >= LastEvent.value

\* C9: approve returns Ok whatever the state, sets allowance(caller, spender)
\* to exactly value and appends exactly the notification Approval {owner:
\* caller, spender, value}.
C9_ApproveOverwrites ==
    [][\A caller \in AccountId, spender \in AccountId, value \in Balance :
          approve(caller, spender, value)
              => /\ result' = Ok
                 /\ allowance(caller, spender)' = value
                 /\ events' = Append(events, Approval(caller, spender, value))]_vars

\* The pair was approved twice, the second time for less, by an owner whose
\* balance is below the allowance.
C9_Witness ==
    /\ message = "approve"
    /\ Len(events) >= 3
    /\ events[Len(events) - 1].event = "Approval"
    /\ events[Len(events) - 1].owner = LastEvent.owner
    /\ events[Len(events) - 1].spender = LastEvent.spender
    /\ events[Len(events) - 1].value > LastEvent.value
    /\ LastEvent.value > 0
    /\ allowance(LastEvent.owner, LastEvent.spender) = LastEvent.value
    /\ balance_of(LastEvent.owner) < LastEvent.value

\* C10: total_supply, name, symbol and decimals keep the values given to the
\* constructor in every reachable state.
C10_ConstructorFieldsKept ==
    /\ total_supply = deployed.initial_supply
    /\ name = deployed.name
    /\ symbol = deployed.symbol
    /\ decimals = deployed.decimals

C10_Witness ==
    /\ message = "transfer_from"
    /\ result = Ok
    /\ total_supply > 0
    /\ balance_of(deployed.caller) < total_supply
    /\ Len(events) >= 3

\* C11: right after new(initial_supply, name, symbol, decimals) by caller A,
\* total_supply and the balance of A are initial_supply, every other balance
\* and every allowance is 0, and the event log holds exactly the
\* notification Transfer {from: None, to: A, value: initial_supply}.
C11_Constructed ==
    message = "new" =>
        /\ total_supply = deployed.initial_supply
        /\ balance_of(deployed.caller) = deployed.initial_supply
        /\ \A x \in AccountId \ {deployed.caller} : balance_of(x) = 0
        /\ \A o \in AccountId, s \in AccountId : allowance(o, s) = 0
        /\ events = <<Transfer(None, deployed.caller, deployed.initial_supply)>>

C11_Witness ==
    /\ message = "new"
    /\ deployed.initial_supply = MaxBalance
    /\ Len(events) = 1

\* C12: amounts never wrap and are never negative.  No step ends in an
\* overflow panic, every balance and allowance stays within 0..MaxBalance,
\* and the credit of every emitted transfer between two accounts is the
\* recipient's balance plus value, not that sum wrapped.
C12_NoOverflow ==
    [][/\ result' # Trap
       /\ \A a \in DOMAIN balances' : balances'[a] \in Balance
       /\ \A p \in DOMAIN allowances' : allowances'[p] \in Balance
       /\ (Len(events') > Len(events) /\ LastEvent'.event = "Transfer"
           /\ LastEvent'.from # LastEvent'.to)
             => /\ balance_of_in(balances', LastEvent'.to) =
                      balance_of(LastEvent'.to) + LastEvent'.value
                /\ balance_of_in(balances', LastEvent'.from) =
                      balance_of(LastEvent'.from) - LastEvent'.value]_vars

\* The whole supply, the largest amount there is, was moved to an account
\* that held nothing.
C12_Witness ==
    /\ message = "transfer"
    /\ result = Ok
    /\ LastEvent.from # LastEvent.to
    /\ LastEvent.value = MaxBalance
    /\ balance_of(LastEvent.to) = MaxBalance

\* C13: approve(o, s, v) right after approve(o, s, v) leaves total_supply,
\* every balance and every allowance as the first call left them.
C13_ApproveIdempotent ==
    [][\A o \in AccountId, s \in AccountId, v \in Balance :
          (/\ message = "approve"
           /\ LastEvent = Approval(o, s, v)
           /\ approve(o, s, v))
              => /\ total_supply' = total_supply
                 /\ balances' = balances
                 /\ allowances' = allowances]_vars

C13_Witness ==
    /\ message = "approve"
    /\ Len(events) >= 3
    /\ events[Len(events) - 1] = LastEvent
    /\ LastEvent.value > 0
    /\ allowance(LastEvent.owner, LastEvent.spender) = LastEvent.value

\* C15: the balance of an account o goes down in a step only if the step is
\* a successful transfer called by o, or a successful transfer_from with
\* from = o by a caller whose allowance from o was, before the step, at least
\* the amount the balance went down by.
C15_OnlyOwnerOrApprovedDebits ==
    [][\A o \in AccountId :
          balance_of(o)' < balance_of(o)
              => \/ \E to \in AccountId, value \in Balance :
                       transfer(o, to, value) /\ result' = Ok
                 \/ \E caller \in AccountId, to \in AccountId, value \in Balance :
                       /\ transfer_from(caller, o, to, value)
                       /\ result' = Ok
                       /\ allowance(o, caller) >= balance_of(o) - balance_of(o)']_vars

\* A spender emptied the balance of an owner who had approved it.
C15_Witness ==
    /\ message = "transfer_from"
    /\ result = Ok
    /\ LastEvent.value > 0
    /\ LastEvent.from # LastEvent.to
    /\ balance_of(LastEvent.from) = 0
    /\ \E spender \in AccountId \ {LastEvent.from} :
          moved[<<LastEvent.from, spender>>] = LastEvent.value

\* The sum of the values of the Transfer notifications events[1..n] that
\* name x as recipient (Credited) or as sender (Debited).
RECURSIVE Credited(_, _)
Credited(x, n) ==
    IF n = 0 THEN 0
    ELSE Credited(x, n - 1)
         + (IF events[n].event = "Transfer" /\ events[n].to = x
            THEN events[n].value ELSE 0)

RECURSIVE Debited(_, _)
Debited(x, n) ==
    IF n = 0 THEN 0
    ELSE Debited(x, n - 1)
         + (IF events[n].event = "Transfer" /\ events[n].from = x
            THEN events[n].value ELSE 0)

\* C16: in every reachable state every balance is the sum of the Transfer
\* notifications to the account (the minting one included) minus the sum of
\* those from it; a successful transfer or transfer_from appends exactly one
\* Transfer notification and a failing one appends nothing.
C16_LogReconstructsBalances ==
    /\ [](\A x \in AccountId :
             balance_of(x) = Credited(x, Len(events)) - Debited(x, Len(events)))
    /\ [][message' \in {"transfer", "transfer_from"}
             => IF result' = Ok
                THEN /\ Len(events') = Len(events) + 1
                     /\ SubSeq(events', 1, Len(events)) = events
                     /\ LastEvent'.event = "Transfer"
                ELSE events' = events]_vars

C16_Witness ==
    /\ Len(events) = 3
    /\ events[2].event = "Transfer"
    /\ events[2].value > 0
    /\ events[3].event = "Transfer"
    /\ events[3].value > 0
    /\ events[3].from = events[2].to
    /\ events[3].from # events[3].to
    /\ balance_of(events[3].to) > 0

\* C17: transfer changes no allowance; approve changes no balance and no
\* allowance but allowance(caller, spender); a successful transfer_from
\* changes no allowance but allowance(from, caller) and no balance but those
\* of from and to.
C17_Frame ==
    [][/\ \A caller \in AccountId, to \in AccountId, value \in Balance :
             transfer(caller, to, value)
                 => \A o \in AccountId, s \in AccountId :
                       allowance(o, s)' = allowance(o, s)
       /\ \A caller \in AccountId, spender \in AccountId, value \in Balance :
             approve(caller, spender, value)
                 => /\ \A a \in AccountId : balance_of(a)' = balance_of(a)
                    /\ \A o \in AccountId, s \in AccountId :
                          <<o, s>> # <<caller, spender>>
                              => allowance(o, s)' = allowance(o, s)
       /\ \A caller \in AccountId, from \in AccountId, to \in AccountId,
             value \in Balance :
             (transfer_from(caller, from, to, value) /\ result' = Ok)
                 => /\ \A o \in AccountId, s \in AccountId :
                          <<o, s>> # <<from, caller>>
                              => allowance(o, s)' = allowance(o, s)
                    /\ \A a \in AccountId \ {from, to} :
                          balance_of(a)' = balance_of(a)]_vars

\* A spender moved part of its allowance from the owner to a third account.
C17_Witness ==
    /\ message = "transfer_from"
    /\ result = Ok
    /\ LastEvent.value > 0
    /\ LastEvent.from # LastEvent.to
    /\ \E caller \in AccountId \ {LastEvent.from, LastEvent.to} :
          /\ moved[<<LastEvent.from, caller>>] > 0
          /\ allowance(LastEvent.from, caller) > 0

C19_ZeroValueSucceeds ==
    [][/\ \A caller \in AccountId, to \in AccountId :
             transfer(caller, to, 0)
                 => /\ result' = Ok
                    /\ \A a \in AccountId : balance_of(a)' = balance_of(a)
                    /\ \A o \in AccountId, s \in AccountId :
                          allowance(o, s)' = allowance(o, s)
                    /\ events' = Append(events, Transfer(caller, to, 0))
       /\ \A caller \in AccountId, from \in AccountId, to \in AccountId :
             transfer_from(caller, from, to, 0)
                 => /\ result' = Ok
                    /\ \A a \in AccountId : balance_of(a)' = balance_of(a)
                    /\ \A o \in AccountId, s \in AccountId :
                          allowance(o, s)' = allowance(o, s)
                    /\ events' = Append(events, Transfer(from, to, 0))]_vars

\* A zero-value transfer_from out of an empty balance, by a caller no one
\* ever approved.
C19_Witness ==
    /\ message = "transfer_from"
    /\ result = Ok
    /\ LastEvent.value = 0
    /\ balance_of(LastEvent.from) = 0
    /\ LastEvent.from \in DOMAIN balances
    /\ DOMAIN approved = {}
    /\ DOMAIN allowances # {}

\* C14: for the Flipper created by new(b) (default() being new(false)),
\* after n flips interleaved with any gets the stored value, and what a get
\* returns, is b for even n and the negation of b for odd n; a get does not
\* change the value.
C14_FlipParity ==
    LET b == flipper_history.init_value
        expected == IF flipper_history.flips % 2 = 0 THEN b ELSE ~b
    IN  /\ flipper.value = expected
        /\ flipper_call.op = "get" => flipper_call.ret = expected

C14_Witness ==
    /\ flipper_call.op = "get"
    /\ flipper_call.ret = FALSE
    /\ flipper_history.init_value = TRUE
    /\ flipper_history.flips = 3
    /\ flipper_history.gets >= 2

=============================================================================
